---- MODULE Spec2Model ----
(***************************************************************************)
(* A model of kpaths3d/hkot/spg_mapping.py: the spacegroup / point-group   *)
(* lookups, the realtime ingestion loop, the HKOT P matrices and the       *)
(* reduction of a conventional cell to its primitive cell.                 *)
(*                                                                         *)
(* Python values that the code type-checks are records [type, val].        *)
(* Fractional coordinates are fixed-point integers: one unit is 5e-7, so   *)
(* 1.0 is Scale units and the 1e-6 threshold is Threshold units.           *)
(* Atom indices are 0-based as in the source; a tuple of indices is a      *)
(* sequence.  A rational matrix is a record [den, num] (num / den).        *)
(***************************************************************************)
EXTENDS Integers, Sequences, FiniteSets, TLC

VARIABLES fn, args, pc, ret, hall_n, info, visited

vars == <<fn, args, pc, ret, hall_n, info, visited>>

\* ------------------------------------------------------------------ bounds
\* How far beyond the valid ranges 1..230 and 1..32 the lookups are called.
Margin == 3
\* The number of Hall-setting identifiers the realtime loop visits
\* (range(1,531) in the source).
NumHall == 3
\* The largest number of atoms of a structure handed to get_primitive.
MaxAtoms == 4
\* The same, when every Bravais symbol is tried.
MaxAtomsAll == 2

\* ------------------------------------------------- results of a Python call
NoResult == [kind |-> "none"]
Return(v) == [kind |-> "return", val |-> v]
Raise(e, m) == [kind |-> "raise", exc |-> e, msg |-> m]
RaiseNaming(e, m, what) == [kind |-> "raise", exc |-> e, msg |-> m, named |-> what]

PyInt(n) == [type |-> "int", val |-> n]

\* ------------------------------------------------------ get_crystal_family
get_crystal_family_offbyone(number) ==
    IF number.type \notin {"int", "long"}
    THEN Raise("TypeError", "number should be integer")
    ELSE IF number.val < 1 THEN Raise("ValueError", "number should be >= 1")
    ELSE IF number.val <= 2 THEN Return("a")
    ELSE IF number.val < 15 THEN Return("m")
    ELSE IF number.val <= 74 THEN Return("o")
    ELSE IF number.val <= 142 THEN Return("t")
    ELSE IF number.val <= 194 THEN Return("h")
    ELSE IF number.val <= 230 THEN Return("c")
    ELSE Raise("ValueError", "number should be <= 230")

get_crystal_family(number) ==
    IF number.type \notin {"int", "long"}
    THEN Raise("TypeError", "number should be integer")
    ELSE IF number.val < 1 THEN Raise("ValueError", "number should be >= 1")
    ELSE IF number.val <= 2 THEN Return("a")
    ELSE IF number.val <= 15 THEN Return("m")
    ELSE IF number.val <= 74 THEN Return("o")
    ELSE IF number.val <= 142 THEN Return("t")
    ELSE IF number.val <= 194 THEN Return("h")
    ELSE IF number.val <= 230 THEN Return("c")
    ELSE Raise("ValueError", "number should be <= 230")

\* The family each returned letter stands for (the comments of the returns).
FamilyName ==
    [a |-> "triclinic", m |-> "monoclinic", o |-> "orthorhombic",
     t |-> "tetragonal", h |-> "trigonal/hexagonal", c |-> "cubic"]

\* ------------------------------------------------ pointgroup_has_inversion
pointgroup_has_inversion_gap(number) ==
    IF number \in {2,5,8,11,15,17,20,23,27,29,32} THEN Return(TRUE)
    ELSE IF number \in {1,3,4,6,7,9,10,12,13,14,16,18,19,21,22,24,25,26,28,31}
    THEN Return(FALSE)
    ELSE Raise("ValueError", "number should be between 1 and 32")

pointgroup_has_inversion(number) ==
    IF number \in {2,5,8,11,15,17,20,23,27,29,32} THEN Return(TRUE)
    ELSE IF number \in {1,3,4,6,7,9,10,12,13,14,16,18,19,21,22,24,25,26,28,30,31}
    THEN Return(FALSE)
    ELSE Raise("ValueError", "number should be between 1 and 32")

\* -------------------------------------------------------- pgnum_from_pgint
table ==
    [C1 |-> 1, C2 |-> 3, C2h |-> 5, C2v |-> 7, C3 |-> 16, C3h |-> 22,
     C3i |-> 17, C3v |-> 19, C4 |-> 9, C4h |-> 11, C4v |-> 13, C6 |-> 21,
     C6h |-> 23, C6v |-> 25, Ci |-> 2, Cs |-> 4, D2 |-> 6, D2d |-> 14,
     D2h |-> 8, D3 |-> 18, D3d |-> 20, D3h |-> 26, D4 |-> 12, D4h |-> 15,
     D6 |-> 24, D6h |-> 27, O |-> 30, Oh |-> 32, S4 |-> 10, T |-> 28,
     Td |-> 31, Th |-> 29]

pgnum_from_pgint(pgint) ==
    IF pgint \in DOMAIN table THEN Return(table[pgint])
    ELSE Raise("KeyError", pgint)

\* --------------------------------------------------- the lookups, as calls
\* The arguments the lookups are called with.
FamilyArgs ==
    { [type |-> t, val |-> n] :
        t \in {"int", "long", "float", "str"}, n \in (1 - Margin)..(230 + Margin) }
InversionArgs == (1 - Margin)..(32 + Margin)
PgintArgs == DOMAIN table \cup {"C5", "m-3m"}

InitLookup ==
    /\ pc = "call"
    /\ ret = NoResult
    /\ hall_n = 0 /\ info = <<>> /\ visited = <<>>
    /\ \/ fn = "get_crystal_family" /\ args \in FamilyArgs
       \/ fn = "pointgroup_has_inversion" /\ args \in InversionArgs
       \/ fn = "pgnum_from_pgint" /\ args \in PgintArgs

CallCrystalFamily ==
    /\ pc = "call" /\ fn = "get_crystal_family"
    /\ ret' = get_crystal_family(args)
    /\ pc' = "done"
    /\ UNCHANGED <<fn, args, hall_n, info, visited>>

CallHasInversion ==
    /\ pc = "call" /\ fn = "pointgroup_has_inversion"
    /\ ret' = pointgroup_has_inversion(args)
    /\ pc' = "done"
    /\ UNCHANGED <<fn, args, hall_n, info, visited>>

CallPgnum ==
    /\ pc = "call" /\ fn = "pgnum_from_pgint"
    /\ ret' = pgnum_from_pgint(args)
    /\ pc' = "done"
    /\ UNCHANGED <<fn, args, hall_n, info, visited>>

NextLookup == CallCrystalFamily \/ CallHasInversion \/ CallPgnum

SpecLookup == InitLookup /\ [][NextLookup]_vars

\* ------------------------------------------------------- claims on lookups
InvalidInput == {"TypeError", "ValueError", "KeyError"}

RangeFamily(n) ==
    CASE n \in 1..2 -> "triclinic"
      [] n \in 3..15 -> "monoclinic"
      [] n \in 16..74 -> "orthorhombic"
      [] n \in 75..142 -> "tetragonal"
      [] n \in 143..194 -> "trigonal/hexagonal"
      [] n \in 195..230 -> "cubic"

\* C7: get_crystal_family returns, for every integer 1..230, the one family
\* tag of the fixed range the number lies in, and for every integer below 1
\* or above 230 and every non-integer argument it raises an InvalidInput
\* error and returns no tag.
C7_FamilyByRange ==
    (fn = "get_crystal_family" /\ pc = "done") =>
        IF args.type \in {"int", "long"} /\ args.val \in 1..230
        THEN /\ ret.kind = "return"
             /\ ret.val \in DOMAIN FamilyName
             /\ FamilyName[ret.val] = RangeFamily(args.val)
        ELSE /\ ret.kind = "raise"
             /\ ret.exc \in InvalidInput

C7_Witness ==
    /\ fn = "get_crystal_family" /\ pc = "done"
    /\ args = PyInt(15)
    /\ ret.kind = "return" /\ ret.val = "m"

InversionSet == {2,5,8,11,15,17,20,23,27,29,32}

\* C8: pointgroup_has_inversion returns true on the 11 listed numbers, false
\* on every other number of 1..32 and raises outside 1..32; every number that
\* pgnum_from_pgint returns lies in 1..32, so its inversion flag is defined.
C8_InversionTotal ==
    /\ (fn = "pointgroup_has_inversion" /\ pc = "done") =>
         /\ args \in InversionSet => (ret.kind = "return" /\ ret.val = TRUE)
         /\ args \in (1..32) \ InversionSet =>
                (ret.kind = "return" /\ ret.val = FALSE)
         /\ args \notin 1..32 => (ret.kind = "raise" /\ ret.exc \in InvalidInput)
    /\ (fn = "pgnum_from_pgint" /\ pc = "done" /\ ret.kind = "return") =>
         /\ ret.val \in 1..32
         /\ pointgroup_has_inversion(ret.val).kind = "return"

C8_Witness ==
    /\ fn = "pgnum_from_pgint" /\ pc = "done" /\ args = "O"
    /\ ret.kind = "return" /\ ret.val = 30
    /\ pointgroup_has_inversion(ret.val) = Return(FALSE)

\* ----------------------------------------------- get_spgroup_data_realtime
\* The records spglib.get_spacegroup_type may return for a Hall identifier.
\* A short symbol is a sequence of characters.
LibRecords ==
    { [number |-> n, international_short |-> sh, pointgroup_international |-> pg] :
        n \in {1, 15, 231},
        sh \in { <<"P", "1">>, <<"C", "2">> },
        pg \in {"C1", "Ci", "-1"} }

\* int_short[0]
FirstChar(s) == s[1]

\* The body of the loop for one record: the new info, or the exception raised
\* while the tuple is built (its items are evaluated left to right).
realtime_body_overwrite(inf, data) ==
    LET number == data.number
        fam == get_crystal_family(PyInt(number))
        pgn == pgnum_from_pgint(data.pointgroup_international)
        inv == IF pgn.kind = "return" THEN pointgroup_has_inversion(pgn.val) ELSE pgn
    IN  IF fam.kind = "raise" THEN [info |-> inf, exc |-> fam]
        ELSE IF inv.kind = "raise" THEN [info |-> inf, exc |-> inv]
        ELSE [info |-> (number :>
                          <<fam.val, FirstChar(data.international_short), inv.val>>)
                       @@ inf,
              exc |-> NoResult]

realtime_body(inf, data) ==
    LET number == data.number
        fam == get_crystal_family(PyInt(number))
        pgn == pgnum_from_pgint(data.pointgroup_international)
        inv == IF pgn.kind = "return" THEN pointgroup_has_inversion(pgn.val) ELSE pgn
    IN  IF number \notin DOMAIN inf
        THEN IF fam.kind = "raise" THEN [info |-> inf, exc |-> fam]
             ELSE IF inv.kind = "raise" THEN [info |-> inf, exc |-> inv]
             ELSE [info |-> (number :>
                               <<fam.val, FirstChar(data.international_short), inv.val>>)
                            @@ inf,
                   exc |-> NoResult]
        ELSE [info |-> inf, exc |-> NoResult]

InitRealtime ==
    /\ fn = "get_spgroup_data_realtime"
    /\ args = <<>>
    /\ pc = "loop"
    /\ ret = NoResult
    /\ hall_n = 1
    /\ info = <<>>
    /\ visited = <<>>

\* One iteration of `for hall_n in range(1,531)`; visited records the
\* identifier asked of the library and the record it returned.
RealtimeIteration ==
    /\ fn = "get_spgroup_data_realtime" /\ pc = "loop"
    /\ hall_n <= NumHall
    /\ \E data \in LibRecords :
         LET r == realtime_body(info, data)
         IN  /\ visited' = Append(visited, [hall_n |-> hall_n, data |-> data])
             /\ info' = r.info
             /\ IF r.exc.kind = "raise"
                THEN pc' = "done" /\ ret' = r.exc /\ hall_n' = hall_n
                ELSE pc' = "loop" /\ ret' = ret /\ hall_n' = hall_n + 1
    /\ UNCHANGED <<fn, args>>

RealtimeReturn ==
    /\ fn = "get_spgroup_data_realtime" /\ pc = "loop"
    /\ hall_n > NumHall
    /\ pc' = "done"
    /\ ret' = Return(info)
    /\ UNCHANGED <<fn, args, hall_n, info, visited>>

NextRealtime == RealtimeIteration \/ RealtimeReturn

SpecRealtime == InitRealtime /\ [][NextRealtime]_vars

\* The first visit whose record has spacegroup number n.
FirstVisit(n) ==
    CHOOSE i \in 1..Len(visited) :
        /\ visited[i].data.number = n
        /\ \A j \in 1..(i - 1) : visited[j].data.number # n

\* C10: the loop asks the library for the identifiers 1, 2, ... in ascending
\* order, all of them before it returns; whenever no exception was raised,
\* info holds exactly one entry per spacegroup number seen so far, and that
\* entry is the family of the number, the first letter of the short symbol
\* and the inversion flag of the FIRST record seen with that number (so no
\* later record overwrites it).
C10_FirstRecordWins ==
    /\ \A i \in 1..Len(visited) : visited[i].hall_n = i
    /\ (pc = "done" /\ ret.kind = "return") =>
           (Len(visited) = NumHall /\ ret.val = info)
    /\ ret.kind # "raise" =>
         /\ DOMAIN info = { visited[i].data.number : i \in 1..Len(visited) }
         /\ \A n \in DOMAIN info :
              LET first == visited[FirstVisit(n)].data
              IN  /\ info[n][1] = get_crystal_family(PyInt(n)).val
                  /\ info[n][2] = first.international_short[1]
                  /\ info[n][3] = pointgroup_has_inversion(
                         pgnum_from_pgint(first.pointgroup_international).val).val

C10_Witness ==
    /\ pc = "done" /\ ret.kind = "return"
    /\ Len(visited) >= 3
    /\ visited[1].data.number = 15 /\ visited[3].data.number = 15
    /\ visited[2].data.number = 1
    /\ visited[1].data.international_short = <<"C", "2">>
    /\ visited[3].data.international_short = <<"P", "1">>
    /\ visited[1].data.pointgroup_international = "Ci"
    /\ visited[3].data.pointgroup_international = "C1"
    /\ DOMAIN ret.val = {1, 15}
    /\ ret.val[15] = <<"m", "C", TRUE>>

\* ------------------------------------------------------- 3x3 matrix algebra
Dim == 1..3
Abs(x) == IF x < 0 THEN -x ELSE x
Identity3 == << <<1,0,0>>, <<0,1,0>>, <<0,0,1>> >>
\* np.dot of two matrices, of a matrix and a vector; A.T; np.linalg.det
MatMul(A, B) ==
    [i \in Dim |-> [j \in Dim |-> A[i][1]*B[1][j] + A[i][2]*B[2][j] + A[i][3]*B[3][j]]]
MatVec(A, v) == [i \in Dim |-> A[i][1]*v[1] + A[i][2]*v[2] + A[i][3]*v[3]]
Transpose(A) == [i \in Dim |-> [j \in Dim |-> A[j][i]]]
Scaled(k, A) == [i \in Dim |-> [j \in Dim |-> k * A[i][j]]]
Det(A) ==
      A[1][1] * (A[2][2]*A[3][3] - A[2][3]*A[3][2])
    - A[1][2] * (A[2][1]*A[3][3] - A[2][3]*A[3][1])
    + A[1][3] * (A[2][1]*A[3][2] - A[2][2]*A[3][1])

\* ------------------------------------------------------------ get_P_matrix
\* P is num / den: `1./2. * np.array(...)` is [den |-> 2, num |-> ...].
Rational(d, m) == [den |-> d, num |-> m]

get_P_matrix_cF_as_cI(bravais_lattice) ==
    IF bravais_lattice \in {"cP", "tP", "hP", "oP", "mP"}
    THEN Return([P |-> Rational(1, Identity3), invP |-> Identity3])
    ELSE IF bravais_lattice \in {"cF", "oF", "cI", "tI", "oI"}
    THEN Return([P |-> Rational(2, << <<-1,1,1>>, <<1,-1,1>>, <<1,1,-1>> >>),
                 invP |-> << <<0,1,1>>, <<1,0,1>>, <<1,1,0>> >>])
    ELSE IF bravais_lattice = "hR"
    THEN Return([P |-> Rational(3, << <<2,-1,-1>>, <<1,1,-2>>, <<1,1,1>> >>),
                 invP |-> << <<1,0,1>>, <<-1,1,1>>, <<0,-1,1>> >>])
    ELSE IF bravais_lattice = "oC"
    THEN Return([P |-> Rational(2, << <<1,1,0>>, <<-1,1,0>>, <<0,0,2>> >>),
                 invP |-> << <<1,-1,0>>, <<1,1,0>>, <<0,0,1>> >>])
    ELSE IF bravais_lattice = "oA"
    THEN Return([P |-> Rational(2, << <<0,0,2>>, <<1,1,0>>, <<-1,1,0>> >>),
                 invP |-> << <<0,1,-1>>, <<0,1,1>>, <<1,0,0>> >>])
    ELSE IF bravais_lattice = "mC"
    THEN Return([P |-> Rational(2, << <<1,-1,0>>, <<1,1,0>>, <<0,0,2>> >>),
                 invP |-> << <<1,1,0>>, <<-1,1,0>>, <<0,0,1>> >>])
    ELSE Raise("ValueError", "Invalid bravais_lattice")

get_P_matrix_oC_invP_of_mC(bravais_lattice) ==
    IF bravais_lattice \in {"cP", "tP", "hP", "oP", "mP"}
    THEN Return([P |-> Rational(1, Identity3), invP |-> Identity3])
    ELSE IF bravais_lattice \in {"cF", "oF"}
    THEN Return([P |-> Rational(2, << <<0,1,1>>, <<1,0,1>>, <<1,1,0>> >>),
                 invP |-> << <<-1,1,1>>, <<1,-1,1>>, <<1,1,-1>> >>])
    ELSE IF bravais_lattice \in {"cI", "tI", "oI"}
    THEN Return([P |-> Rational(2, << <<-1,1,1>>, <<1,-1,1>>, <<1,1,-1>> >>),
                 invP |-> << <<0,1,1>>, <<1,0,1>>, <<1,1,0>> >>])
    ELSE IF bravais_lattice = "hR"
    THEN Return([P |-> Rational(3, << <<2,-1,-1>>, <<1,1,-2>>, <<1,1,1>> >>),
                 invP |-> << <<1,0,1>>, <<-1,1,1>>, <<0,-1,1>> >>])
    ELSE IF bravais_lattice = "oC"
    THEN Return([P |-> Rational(2, << <<1,1,0>>, <<-1,1,0>>, <<0,0,2>> >>),
                 invP |-> << <<1,1,0>>, <<-1,1,0>>, <<0,0,1>> >>])
    ELSE IF bravais_lattice = "oA"
    THEN Return([P |-> Rational(2, << <<0,0,2>>, <<1,1,0>>, <<-1,1,0>> >>),
                 invP |-> << <<0,1,-1>>, <<0,1,1>>, <<1,0,0>> >>])
    ELSE IF bravais_lattice = "mC"
    THEN Return([P |-> Rational(2, << <<1,-1,0>>, <<1,1,0>>, <<0,0,2>> >>),
                 invP |-> << <<1,1,0>>, <<-1,1,0>>, <<0,0,1>> >>])
    ELSE Raise("ValueError", "Invalid bravais_lattice")

get_P_matrix(bravais_lattice) ==
    IF bravais_lattice \in {"cP", "tP", "hP", "oP", "mP"}
    THEN Return([P |-> Rational(1, Identity3), invP |-> Identity3])
    ELSE IF bravais_lattice \in {"cF", "oF"}
    THEN Return([P |-> Rational(2, << <<0,1,1>>, <<1,0,1>>, <<1,1,0>> >>),
                 invP |-> << <<-1,1,1>>, <<1,-1,1>>, <<1,1,-1>> >>])
    ELSE IF bravais_lattice \in {"cI", "tI", "oI"}
    THEN Return([P |-> Rational(2, << <<-1,1,1>>, <<1,-1,1>>, <<1,1,-1>> >>),
                 invP |-> << <<0,1,1>>, <<1,0,1>>, <<1,1,0>> >>])
    ELSE IF bravais_lattice = "hR"
    THEN Return([P |-> Rational(3, << <<2,-1,-1>>, <<1,1,-2>>, <<1,1,1>> >>),
                 invP |-> << <<1,0,1>>, <<-1,1,1>>, <<0,-1,1>> >>])
    ELSE IF bravais_lattice = "oC"
    THEN Return([P |-> Rational(2, << <<1,1,0>>, <<-1,1,0>>, <<0,0,2>> >>),
                 invP |-> << <<1,-1,0>>, <<1,1,0>>, <<0,0,1>> >>])
    ELSE IF bravais_lattice = "oA"
    THEN Return([P |-> Rational(2, << <<0,0,2>>, <<1,1,0>>, <<-1,1,0>> >>),
                 invP |-> << <<0,1,-1>>, <<0,1,1>>, <<1,0,0>> >>])
    ELSE IF bravais_lattice = "mC"
    THEN Return([P |-> Rational(2, << <<1,-1,0>>, <<1,1,0>>, <<0,0,2>> >>),
                 invP |-> << <<1,1,0>>, <<-1,1,0>>, <<0,0,1>> >>])
    ELSE Raise("ValueError", "Invalid bravais_lattice")

\* int(np.linalg.det(invP)): the determinant of these integer matrices is
\* computed exactly (every LU multiplier is +-1), and int() of an integral
\* float is that integer.
volume_ratio_of(invP) == Det(invP)

\* ----------------------------------------------------------- get_primitive
Scale == 2000000
Threshold == 2
Half == Scale \div 2

\* The indices 0..N-1 of a list given as a function on them.
Indices(f) == DOMAIN f

\* A list or dict as a stored value: its items are computed once, when it is
\* built, not on each access.
Stored(f) == f @@ <<>>

\* np.dot(invP, np.array(positions).T).T
prim_positions_of(positions, invP) ==
    Stored([i \in Indices(positions) |-> MatVec(invP, positions[i])])

\* np.abs(((b - a + 0.5) % 1.) - 0.5) < threshold, on one coordinate
axis_match(a, b) == Abs(((b - a + Half) % Scale) - Half) < Threshold

\* all_match[row][col]
all_match(pp, row, col) ==
    /\ axis_match(pp[row][1], pp[col][1])
    /\ axis_match(pp[row][2], pp[col][2])
    /\ axis_match(pp[row][3], pp[col][3])

\* The elements of a set of integers as an ascending tuple.
RECURSIVE Ascending(_)
Ascending(S) ==
    IF S = {} THEN <<>>
    ELSE LET m == CHOOSE x \in S : \A y \in S : x <= y
         IN  <<m>> \o Ascending(S \ {m})

\* tuple(np.arange(N)[row]) for each row of all_match
group_of_equivalent_atoms(pp) ==
    Stored([row \in Indices(pp) |->
        Ascending({col \in Indices(pp) : all_match(pp, row, col)})])

\* Counter(group_of_equivalent_atoms): how many rows give each tuple
group_count(pp) ==
    LET g == group_of_equivalent_atoms(pp)
    IN  Stored([t \in {g[row] : row \in Indices(pp)} |->
            Cardinality({row \in Indices(pp) : g[row] = t})])

wrong_count(pp, volume_ratio) ==
    LET cnt == group_count(pp)
    IN  {group \in DOMAIN cnt : cnt[group] # volume_ratio}

\* Python's order of tuples: by the first differing item, a proper prefix first.
TupleLess(s, t) ==
    \E k \in 1..(Len(s) + 1) :
        /\ \A j \in 1..(k - 1) : j <= Len(t) /\ s[j] = t[j]
        /\ \/ k = Len(s) + 1 /\ Len(t) >= k
           \/ k <= Len(s) /\ k <= Len(t) /\ s[k] < t[k]

RECURSIVE sorted(_)
sorted(S) ==
    IF S = {} THEN <<>>
    ELSE LET m == CHOOSE x \in S : \A y \in S \ {x} : TupleLess(x, y)
         IN  <<m>> \o sorted(S \ {m})

\* groups = sorted(group_count.keys())
groups_of(pp) == sorted(DOMAIN group_count(pp))

\* group[0] for each group
chosen_last(groups) == [g \in 1..Len(groups) |-> groups[g][Len(groups[g])]]

chosen_idx_of(groups) == [g \in 1..Len(groups) |-> groups[g][1]]

\* set(np.array(types)[np.array(group)]) for each group
unique_types(groups, types) ==
    [g \in 1..Len(groups) |-> {types[groups[g][k]] : k \in 1..Len(groups[g])}]

problematic_never(groups, types) == {}

\* The group_idx whose type_set has len != 1.
problematic_groups_idx(groups, types) ==
    {g \in 1..Len(groups) : Cardinality(unique_types(groups, types)[g]) # 1}

\* arr[chosen_idx], as a list on 0..M-1
Take(arr, chosen_idx) ==
    [k \in 0..(Len(chosen_idx) - 1) |-> arr[chosen_idx[k + 1]]]

get_primitive(structure, bravais_lattice) ==
    LET pm == get_P_matrix(bravais_lattice)
    IN  IF pm.kind = "raise" THEN pm
        ELSE
        LET P == pm.val.P
            invP == pm.val.invP
            volume_ratio == volume_ratio_of(invP)
            prim_lattice ==
                Rational(P.den, Transpose(MatMul(Transpose(structure.lattice), P.num)))
            prim_positions == prim_positions_of(structure.positions, invP)
            wrong == wrong_count(prim_positions, volume_ratio)
            groups == groups_of(prim_positions)
            problematic == problematic_groups_idx(groups, structure.types)
            chosen_idx == chosen_idx_of(groups)
        IN  IF wrong # {}
            \* wrong_count is a list: wrong_count.keys() raises before
            \* the ValueError is built
            THEN Raise("AttributeError", "'list' object has no attribute 'keys'")
            ELSE IF problematic # {}
            THEN RaiseNaming("ValueError",
                     "The following ids of atoms go on top of each other, but they are of different type!",
                     [k \in 1..Cardinality(problematic) |->
                         groups[Ascending(problematic)[k]]])
            ELSE Return([prim_structure |->
                            [lattice |-> prim_lattice,
                             positions |-> Take(prim_positions, chosen_idx),
                             types |-> Take(structure.types, chosen_idx)],
                         P |-> P,
                         invP |-> invP])

\* ------------------------------------------------ the structures handed in
BravaisSymbols ==
    {"cP", "tP", "hP", "oP", "mP", "cF", "oF", "cI", "tI", "oI",
     "hR", "oC", "oA", "mC"}
\* Symbols the table does not know (aP is the triclinic lattice).
OtherSymbols == {"aP", "fcc"}

\* The atoms a structure is made of, positions in units: the four sites of
\* the conventional fcc cell, two sites within the threshold of the origin
\* (one on each side of it), and two sites taken by a second type.
AtomChoices ==
    { [position |-> <<0, 0, 0>>, type |-> 14],
      [position |-> <<Half, Half, 0>>, type |-> 14],
      [position |-> <<Half, 0, Half>>, type |-> 14],
      [position |-> <<0, Half, Half>>, type |-> 14],
      [position |-> <<1, 0, 0>>, type |-> 14],
      [position |-> <<Scale - 1, 0, 0>>, type |-> 14],
      [position |-> <<0, 0, 0>>, type |-> 6],
      [position |-> <<Half, Half, 0>>, type |-> 6] }
CubicLattice == << <<4,0,0>>, <<0,4,0>>, <<0,0,4>> >>
SkewLattice == << <<6,0,0>>, <<1,6,0>>, <<0,2,12>> >>

\* The (lattice, positions, types) tuple of the given atoms.
Structure(l, atoms) ==
    [lattice |-> l,
     positions |-> [i \in DOMAIN atoms |-> atoms[i].position],
     types |-> [i \in DOMAIN atoms |-> atoms[i].type]]

\* A call of get_primitive on a structure of 1..maxN atoms.
PrimitiveCall(lattices, maxN, symbols) ==
    \E n \in 1..maxN, l \in lattices, b \in symbols :
        \E atoms \in [0..(n - 1) -> AtomChoices] :
            args = [structure |-> Structure(l, atoms), bravais_lattice |-> b]

InitPrimitive ==
    /\ fn = "get_primitive"
    /\ PrimitiveCall({CubicLattice}, MaxAtoms, {"cP", "cF", "cI", "hR", "aP"})
    /\ pc = "call"
    /\ ret = NoResult
    /\ hall_n = 0 /\ info = <<>> /\ visited = <<>>

InitMatrix ==
    /\ \/ fn = "get_P_matrix" /\ args \in BravaisSymbols \cup OtherSymbols
       \/ /\ fn = "get_primitive"
          /\ PrimitiveCall({CubicLattice, SkewLattice}, MaxAtomsAll,
                           BravaisSymbols \cup OtherSymbols)
    /\ pc = "call"
    /\ ret = NoResult
    /\ hall_n = 0 /\ info = <<>> /\ visited = <<>>

CallGetPMatrix ==
    /\ pc = "call" /\ fn = "get_P_matrix"
    /\ ret' = get_P_matrix(args)
    /\ pc' = "done"
    /\ UNCHANGED <<fn, args, hall_n, info, visited>>

CallGetPrimitive ==
    /\ pc = "call" /\ fn = "get_primitive"
    /\ ret' = get_primitive(args.structure, args.bravais_lattice)
    /\ pc' = "done"
    /\ UNCHANGED <<fn, args, hall_n, info, visited>>

NextMatrix == CallGetPMatrix \/ CallGetPrimitive

SpecMatrix == InitMatrix /\ [][NextMatrix]_vars

NextPrimitive == CallGetPrimitive

SpecPrimitive == InitPrimitive /\ [][NextPrimitive]_vars

\* ------------------------------------------------- claims on get_P_matrix
\* The volume ratios as the claim C4 lists them.
ListedVolumeRatio(b) ==
    CASE b \in {"cP", "tP", "hP", "oP", "mP"} -> {1}
      [] b \in {"cI", "tI", "oI"} -> {2}
      [] b \in {"cF", "oF", "oC", "oA", "mC"} -> {2}
      [] b = "hR" -> 1..9

\* The volume ratios of the matrices of the table.
TableVolumeRatio(b) ==
    CASE b \in {"cP", "tP", "hP", "oP", "mP"} -> 1
      [] b \in {"cI", "tI", "oI"} -> 2
      [] b \in {"oC", "oA", "mC"} -> 2
      [] b \in {"cF", "oF"} -> 4
      [] b = "hR" -> 3

PMatrixReturned ==
    fn = "get_P_matrix" /\ pc = "done" /\ args \in BravaisSymbols

\* C4 as stated: det(invP) is 1 for the P lattices, 2 for cI, tI, oI, 2 for
\* cF, oF, oC, oA, mC and a positive integer for hR, and get_primitive's
\* volume_ratio is that value.
C4_ListedRatios ==
    PMatrixReturned =>
        /\ ret.kind = "return"
        /\ Det(ret.val.invP) \in ListedVolumeRatio(args)
        /\ volume_ratio_of(ret.val.invP) = Det(ret.val.invP)

\* C4 (amended): det(invP) is 1 for cP, tP, hP, oP, mP; 2 for cI, tI, oI and
\* for oC, oA, mC; 4 for cF, oF; 3 for hR; and the volume_ratio that
\* get_primitive computes from invP is that value.
C4_TableRatios ==
    PMatrixReturned =>
        /\ ret.kind = "return"
        /\ Det(ret.val.invP) = TableVolumeRatio(args)
        /\ volume_ratio_of(ret.val.invP) = TableVolumeRatio(args)

C4_Witness ==
    /\ PMatrixReturned /\ args = "cF"
    /\ ret.kind = "return"
    /\ volume_ratio_of(ret.val.invP) = 4

\* C5: for each of the 14 symbols P * invP = invP * P = identity exactly
\* (num * invP = den * identity), any other symbol raises ValueError, and the
\* lattice and the positions that get_primitive returns, transformed back by
\* invP and by P, are the lattice and positions it was given.
C5_InverseExact ==
    /\ (fn = "get_P_matrix" /\ pc = "done") =>
          IF args \in BravaisSymbols
          THEN /\ ret.kind = "return"
               /\ MatMul(ret.val.P.num, ret.val.invP) = Scaled(ret.val.P.den, Identity3)
               /\ MatMul(ret.val.invP, ret.val.P.num) = Scaled(ret.val.P.den, Identity3)
          ELSE ret.kind = "raise" /\ ret.exc = "ValueError"
    /\ (fn = "get_primitive" /\ pc = "done") =>
          IF args.bravais_lattice \in BravaisSymbols
          THEN ret.kind = "return" =>
                 LET out == ret.val.prim_structure
                     P == ret.val.P
                 IN  /\ out.lattice.den = P.den
                     /\ Transpose(MatMul(Transpose(out.lattice.num), ret.val.invP))
                            = Scaled(P.den, args.structure.lattice)
                     /\ \A k \in DOMAIN out.positions :
                            \E i \in DOMAIN args.structure.positions :
                                MatVec(P.num, out.positions[k])
                                    = [c \in Dim |-> P.den * args.structure.positions[i][c]]
          ELSE ret.kind = "raise" /\ ret.exc = "ValueError"

C5_Witness ==
    /\ fn = "get_primitive" /\ pc = "done"
    /\ args.bravais_lattice = "oC"
    /\ args.structure.lattice = SkewLattice
    /\ ret.kind = "return"
    /\ ret.val.P.den = 2
    /\ ret.val.prim_structure.lattice.num # Scaled(2, SkewLattice)
    /\ ret.val.prim_structure.positions[0] = <<0, Scale, 0>>

\* The entries the note of get_P_matrix allows for P, as (numerator, denominator).
AllowedPEntries ==
    { <<0, 1>>, <<1, 1>>, <<-1, 1>>, <<1, 2>>, <<-1, 2>>, <<1, 3>>, <<-1, 3>> }

\* C6: every entry of P is one of 0, +-1, +-1/2, +-1/3 and every entry of
\* invP is one of -1, 0, 1.
C6_EntriesRestricted ==
    (PMatrixReturned /\ ret.kind = "return") =>
        \A i \in Dim, j \in Dim :
            /\ \E q \in AllowedPEntries :
                   ret.val.P.num[i][j] * q[2] = q[1] * ret.val.P.den
            /\ ret.val.invP[i][j] \in {-1, 0, 1}

\* ------------------------------------------------ claims on get_primitive
PrimitiveDone ==
    fn = "get_primitive" /\ pc = "done" /\ args.bravais_lattice \in BravaisSymbols

Atoms == DOMAIN args.structure.positions

\* The primitive coordinates of the atoms of the call: invP * pos, not wrapped.
PrimPos ==
    LET invP == get_P_matrix(args.bravais_lattice).val.invP
    IN  Stored([i \in Atoms |-> MatVec(invP, args.structure.positions[i])])

\* For each atom, the atoms that coincide with it in the primitive cell: the
\* three primitive coordinates are equal modulo 1 within the threshold.
Coincident ==
    LET pp == PrimPos
    IN  Stored([i \in Atoms |->
            {j \in Atoms : \A c \in Dim : axis_match(pp[i][c], pp[j][c])}])

IsEquivalence(co) ==
    /\ \A i \in Atoms : i \in co[i]
    /\ \A i, j \in Atoms : j \in co[i] => i \in co[j]
    /\ \A i, j, k \in Atoms : (j \in co[i] /\ k \in co[j]) => k \in co[i]

SetMin(S) == CHOOSE x \in S : \A y \in S : x <= y

\* The smallest index of each class, ascending.
Representatives(co) == Ascending({SetMin(co[i]) : i \in Atoms})

ConventionalFcc ==
    [lattice |-> CubicLattice,
     positions |-> [i \in 0..3 |->
         << <<0, 0, 0>>, <<Half, Half, 0>>, <<Half, 0, Half>>, <<0, Half, Half>> >>[i + 1]],
     types |-> [i \in 0..3 |-> 14]]

FoundGroups ==
    groups_of(prim_positions_of(args.structure.positions,
                  get_P_matrix(args.bravais_lattice).val.invP))

IsStructureInconsistency(r) ==
    /\ r.kind = "raise" /\ r.exc = "ValueError"
    /\ r.msg = "Problem creating primitive cell, I found the following group of atoms with len != volume_ratio"

IsTypeMismatch(r) ==
    /\ r.kind = "raise" /\ r.exc = "ValueError"
    /\ r.msg = "The following ids of atoms go on top of each other, but they are of different type!"

\* C2: whenever some group found has a number of members different from
\* volumeRatio, the call fails with the StructureInconsistency ValueError
\* ('Problem creating primitive cell ...') and returns no structure.
C2_InconsistencyError ==
    PrimitiveDone =>
        LET g == FoundGroups
        IN  (\E k \in 1..Len(g) : Len(g[k]) # TableVolumeRatio(args.bravais_lattice))
                => IsStructureInconsistency(ret)

\* Atoms i and j coincide in the primitive cell and are of different types.
MixedPair(co, i, j) ==
    /\ i # j /\ j \in co[i]
    /\ args.structure.types[i] # args.structure.types[j]

NamesBoth(r, i, j) ==
    \E k \in 1..Len(r.named) :
        /\ \E a \in 1..Len(r.named[k]) : r.named[k][a] = i
        /\ \E b \in 1..Len(r.named[k]) : r.named[k][b] = j

\* C3 as stated: whenever two atoms of different types coincide, whatever the
\* symbol and the sizes of the groups, the call fails with the TypeMismatch
\* ValueError naming both indices.
C3_MismatchAlways ==
    PrimitiveDone =>
        LET co == Coincident
        IN  \A i, j \in Atoms :
                MixedPair(co, i, j) => (IsTypeMismatch(ret) /\ NamesBoth(ret, i, j))

\* Each atom's set of coincident atoms is the set of exactly volumeRatio atoms
\* (the size check of the groups passes).
SizesConsistent(co) ==
    \A i \in Atoms :
        Cardinality({j \in Atoms : co[j] = co[i]})
            = TableVolumeRatio(args.bravais_lattice)

\* C3 (amended): whenever two atoms of different types coincide and the size
\* check of the groups passes (each atom's set of coincident atoms is shared
\* by exactly volumeRatio atoms), the call fails with the TypeMismatch
\* ValueError naming both indices.
C3_MismatchAfterSizes ==
    PrimitiveDone =>
        LET co == Coincident
        IN  SizesConsistent(co) =>
                \A i, j \in Atoms :
                    MixedPair(co, i, j) =>
                        (IsTypeMismatch(ret) /\ NamesBoth(ret, i, j))

C3_Witness ==
    /\ PrimitiveDone /\ args.bravais_lattice = "cF"
    /\ Cardinality(Atoms) = 4
    /\ \A i \in Atoms : Coincident[i] = Atoms
    /\ MixedPair(Coincident, 0, 1)
    /\ IsTypeMismatch(ret)
    /\ ret.named = << <<0, 1, 2, 3>> >>

\* C9: whenever get_primitive returns, the groups it used partition the atom
\* indices (every index is in exactly one group), no index is returned twice
\* as a representative, and returned atoms times volumeRatio is N.
C9_GroupsPartition ==
    (PrimitiveDone /\ ret.kind = "return") =>
        LET out == ret.val.prim_structure.positions
            g == FoundGroups
            chosen == chosen_idx_of(g)
        IN  /\ \A i \in Atoms :
                  Cardinality({k \in 1..Len(g) :
                      \E a \in 1..Len(g[k]) : g[k][a] = i}) = 1
            /\ \A k, l \in 1..Len(g) : k # l => chosen[k] # chosen[l]
            /\ Cardinality(DOMAIN out) * volume_ratio_of(ret.val.invP)
                   = Cardinality(Atoms)

====
